---- MODULE Spec2Model ----
(***************************************************************************)
(* A model of src/app.py: one script run of the dashboard after ENTER is   *)
(* pressed (keyword fan-out, de-duplication, batched metadata fetch,       *)
(* channel joins and the two secondary filters), the three memoizing       *)
(* caches, and the pure helpers format_count and parse_iso8601_duration.   *)
(*                                                                         *)
(* Encodings.  Video and channel identifiers are naturals.  Python's None  *)
(* is NoChannel (0) for a channel id, Unknown (-1) for a subscriber count  *)
(* and the string "None" for a country.  A Python str that the code takes  *)
(* apart character by character is a sequence of one-character strings.    *)
(***************************************************************************)
EXTENDS Integers, Sequences, FiniteSets, TLC

(***************************************************************************)
(* Program constants.                                                      *)
(***************************************************************************)
SAFETY_MAX_IDS == 500
BATCH_SIZE == 50
CHANNEL_CAP == 500

(***************************************************************************)
(* Bounds of the model.                                                    *)
(***************************************************************************)
MaxKeywords == 2

NoChannel == 0
Unknown == 0 - 1

(***************************************************************************)
(* Generic sequence helpers.                                               *)
(***************************************************************************)
Range(s) == {s[i] : i \in 1..Len(s)}

Min(a, b) == IF a <= b THEN a ELSE b

Interval(a, b) == [i \in 1..(b - a + 1) |-> a + i - 1]

\* lst[:n]
Prefix(lst, n) == SubSeq(lst, 1, Min(n, Len(lst)))

\* Keeps the last occurrence of every element of lst[lo..hi], not the first.
RECURSIVE LastSeenIn(_, _, _)
LastSeenIn(lst, lo, hi) ==
  IF lo > hi THEN <<>>
  ELSE IF lo = hi THEN <<lst[lo]>>
  ELSE LET mid == (lo + hi) \div 2
           left == LastSeenIn(lst, lo, mid)
           right == LastSeenIn(lst, mid + 1, hi)
           later == Range(right)
       IN SelectSeq(left, LAMBDA v: v \notin later) \o right

FirstSeenBug(lst) == LastSeenIn(lst, 1, Len(lst))

\* The seen/unique loop over lst[lo..hi]: an element is appended iff it is not
\* in seen.  The range is walked by halves: what the left half appended is
\* what the right half has seen.
RECURSIVE FirstSeenIn(_, _, _)
FirstSeenIn(lst, lo, hi) ==
  IF lo > hi THEN <<>>
  ELSE IF lo = hi THEN <<lst[lo]>>
  ELSE LET mid == (lo + hi) \div 2
           left == FirstSeenIn(lst, lo, mid)
           right == FirstSeenIn(lst, mid + 1, hi)
           seen == Range(left)
       IN left \o SelectSeq(right, LAMBDA v: v \notin seen)

\* list(dict.fromkeys(lst)), and the seen/unique_ids loop of fetch_keywords.
FirstSeen(lst) == FirstSeenIn(lst, 1, Len(lst))

\* unique_ids[:SAFETY_MAX_IDS]
CapBug(lst) == SubSeq(lst, Len(lst) - Min(SAFETY_MAX_IDS, Len(lst)) + 1, Len(lst))

Cap(lst) == Prefix(lst, SAFETY_MAX_IDS)

\* chunk_list(lst, n), as the list of the chunks it yields.
chunk_listBug(lst, n) ==
  [k \in 1..((Len(lst) + n - 1) \div n) |->
     SubSeq(lst, (k - 1) * n + 1, Min(k * n + 1, Len(lst)))]

chunk_list(lst, n) ==
  [k \in 1..((Len(lst) + n - 1) \div n) |->
     SubSeq(lst, (k - 1) * n + 1, Min(k * n, Len(lst)))]

(***************************************************************************)
(* The upstream platform, as far as one run can observe it.  The video     *)
(* catalogue is a fixed function of the identifier; a search, a trending   *)
(* request and a channel request answer nondeterministically from the      *)
(* small sets below, and every request may fail.                           *)
(***************************************************************************)
BulkA == Interval(101, 220)
BulkB == Interval(201, 800)

\* What one search request can return: r.json()["items"] as videoIds.
SearchResponses == {<<1, 2>>, <<2, 3>>, <<>>, BulkA, BulkB}

TrendingResponses == {<<1, 2>>, <<1>>, <<3>>, <<>>}

\* snippet.channelId of a video (NoChannel: the field is absent).
ChannelIdOf(v) ==
  CASE v = 1 -> 11
    [] v = 2 -> 12
    [] v = 3 -> NoChannel
    [] OTHER -> 11 + (v % 3)

\* statistics.viewCount of a video.
ViewsOf(v) == ((v + 3) % 4) * 100

\* Videos the videos endpoint leaves out of its answer.
Deleted(v) == v > 100 /\ v % 10 = 0

\* timedelta.days counts whole days of 86400 seconds.
SecondsPerDay == 86400

\* snippet.publishedAt as the API gives it: a UTC timestamp (at: seconds on
\* the clock's scale), a text that is no timestamp, or nothing.
UtcStamp(seconds) == [kind |-> "utc", at |-> seconds]

NoStamp == [kind |-> "none", at |-> 0]

BadStamp == [kind |-> "text", at |-> 0]

PublishedOf(v) ==
  CASE v = 1 -> UtcStamp(40000)
    [] v = 2 -> UtcStamp(0 - (2 * SecondsPerDay) - 5)
    [] v = 3 -> BadStamp
    [] v % 5 = 0 -> NoStamp
    [] OTHER -> UtcStamp(SecondsPerDay - (v % 5) * SecondsPerDay)

\* The dict cached_video_stats appends for one response item.
VideoRecord(v) ==
  [videoId |-> v, channelId |-> ChannelIdOf(v), views |-> ViewsOf(v),
   publishedAt |-> PublishedOf(v)]

\* items of the videos endpoint for one chunk, turned into records.
VideoItems(chunk) ==
  LET live == SelectSeq(chunk, LAMBDA v: ~Deleted(v))
  IN [i \in 1..Len(live) |-> VideoRecord(live[i])]

\* What the channels endpoint can know about the channels: each world maps a
\* channel id to its item (present), snippet.country and
\* statistics.subscriberCount.
ChannelWorlds == {"w1", "w2"}

Item(c, s) == [present |-> TRUE, country |-> c, subscriberCount |-> s]

Absent == [present |-> FALSE, country |-> "None", subscriberCount |-> Unknown]

ChannelItem(w, c) ==
  CASE w = "w1" /\ c = 11 -> Item("us", 500)
    [] w = "w1" /\ c = 12 -> Item("DE", 500)
    [] w = "w1" /\ c = 13 -> Item("None", 5000)
    [] w = "w2" /\ c = 11 -> Item("", Unknown)
    [] w = "w2" /\ c = 12 -> Absent
    [] w = "w2" /\ c = 13 -> Item("US", 0)
    [] OTHER -> Absent

\* str.upper() on the country codes of the model.
Upper(s) ==
  CASE s = "us" -> "US"
    [] s = "de" -> "DE"
    [] OTHER -> s

(***************************************************************************)
(* Widgets.                                                                *)
(***************************************************************************)
Modes == {"Select", "Keyword search (last N days)", "Trending (region)"}

\* The region selectbox: "" or "<code> - <name>", kept as its two parts.
RegionOptions == {[code |-> "", name |-> ""], [code |-> "US", name |-> "United States"]}

\* DAYS_OPTIONS, with 0 standing for "Select".
DAYS_OPTIONS == {0, 7}

\* keywords_input.split(","): every list of 1..MaxKeywords raw pieces.
RawPieces == {"", "a", " b"}

KeywordInputs == UNION {[1..n -> RawPieces] : n \in 1..MaxKeywords}

strip(k) == IF k = " b" THEN "b" ELSE k

code_from_option(opt) == IF opt.name = "" THEN "" ELSE Upper(opt.code)

\* [k.strip() for k in keywords_input.split(",") if k.strip()]
ParseKeywords(pieces) ==
  LET kept == SelectSeq(pieces, LAMBDA k: strip(k) # "")
  IN [i \in 1..Len(kept) |-> strip(kept[i])]

\* The subscriber text box as parsed at lines 188-194: int() succeeded or not.
SubscriberInputs ==
  {[valid |-> TRUE, n |-> 0], [valid |-> TRUE, n |-> 100], [valid |-> TRUE, n |-> 1000],
   [valid |-> TRUE, n |-> 0 - 5], [valid |-> FALSE, n |-> 0]}

ParseSubscriberMin(raw) ==
  IF raw.valid THEN (IF raw.n < 0 THEN 0 ELSE raw.n) ELSE 1000

MinViewsChoices == {0, 100}

DisplayModes == {"Table", "Card per Video", "Card per Channel"}

SortBy == {"views", "publishedAt", "views_per_day", "avg_views"}

(***************************************************************************)
(* State.                                                                  *)
(***************************************************************************)
VARIABLES
  pc,                \* where the script run stands
  now,               \* the clock: it advances with every reading of utcnow()
  mode, region_code, keywords, force_refresh,
  published_after, per_kw_max,
  strict_region, subscriber_min, min_views,
  kwIdx,             \* fetch_keywords: index of the keyword being searched
  ordered_ids,       \* fetch_keywords: the collected identifiers
  ids,               \* argument of the cached_* call under way
  batchNo,           \* chunks of that call already answered
  results,           \* cached_video_stats: results
  out,               \* cached_channels_info: out
  site,              \* which call of cached_channels_info: 1 strict, 2 join
  rows,              \* what the fetch returned
  df,                \* the data frame of the run
  channel_info_map,
  log,               \* every external request and every sleep, in order
  msgs,              \* st.error / st.info / st.warning output, in order
  displayed, csv,    \* the result display and the download button were rendered
  cache_search, cache_videos, cache_channels,
  arg, ret           \* argument and result of a pure helper under test

vars ==
  <<pc, now, mode, region_code, keywords, force_refresh, published_after, per_kw_max,
    strict_region, subscriber_min, min_views, kwIdx, ordered_ids, ids, batchNo, results, out, site, rows, df,
    channel_info_map, log, msgs, displayed, csv, cache_search, cache_videos,
    cache_channels, arg, ret>>

inputVars == <<now, mode, region_code, keywords, force_refresh, published_after, per_kw_max>>

filterVars == <<strict_region, subscriber_min, min_views>>

uiVars == <<msgs, displayed, csv>>

fetchVars == <<kwIdx, ordered_ids, ids, batchNo, results, out, site, rows>>

cacheVars == <<cache_search, cache_videos, cache_channels>>

pureVars == <<arg, ret>>

EmptyMap == <<>>

\* A timestamp: the clock reading it was computed from, less a number of days.
NoTime == [at |-> 0, less |-> 0]

\* iso_after_days(days), computed at clock reading t.
iso_after_days(t, days) == [at |-> t, less |-> days]

\* The max-results slider (1..5).
MaxResultsChoices == {2}

\* One entry of log.  ids: the identifiers a videos or channels request asks
\* for, or the identifiers a search returned; ok: the request did not raise.
Event(e, k, l, o) == [ev |-> e, kw |-> k, ids |-> l, ok |-> o]

Msg(l, w, k) == [level |-> l, what |-> w, kw |-> k]

\* out[cid] = {...} for every item of the response.
ChannelItems(w, chunk) ==
  LET present == {c \in Range(chunk) : ChannelItem(w, c).present}
  IN [c \in present |-> [country |-> ChannelItem(w, c).country,
                         subscriberCount |-> ChannelItem(w, c).subscriberCount]]

\* The caches as an earlier run in the same server process, within the 24 hours
\* of CACHE_TTL_SECONDS, leaves them: a keyword run for "a" at clock reading 1
\* that found <<1, 2>> and joined, in view order, channels 12 and 11 in world w1.
EarlierRun ==
  /\ now = 1
  /\ cache_search = (<<"a", iso_after_days(1, 7), 2, "US">> :> <<1, 2>>)
  /\ cache_videos = (<<1, 2>> :> VideoItems(<<1, 2>>))
  /\ cache_channels = (<<12, 11>> :> ChannelItems("w1", <<12, 11>>))

FirstRun ==
  /\ now = 0
  /\ cache_search = EmptyMap /\ cache_videos = EmptyMap /\ cache_channels = EmptyMap

RunInit ==
  /\ pc = "idle"
  /\ FirstRun \/ EarlierRun
  /\ mode = "Select" /\ region_code = "" /\ keywords = <<>> /\ force_refresh = FALSE
  /\ published_after = NoTime /\ per_kw_max = 0
  /\ strict_region = FALSE /\ subscriber_min = 0 /\ min_views = 0
  /\ kwIdx = 0 /\ ordered_ids = <<>> /\ ids = <<>> /\ batchNo = 0
  /\ results = <<>> /\ out = EmptyMap /\ site = 0 /\ rows = <<>> /\ df = <<>>
  /\ channel_info_map = EmptyMap
  /\ log = <<>> /\ msgs = <<>> /\ displayed = FALSE /\ csv = FALSE

Init == RunInit /\ arg = <<>> /\ ret = <<>>

(***************************************************************************)
(* The script run up to the fetch: the widgets of lines 153-172, the       *)
(* force-refresh block of lines 196-203 and the validation of lines        *)
(* 320-345.  The cached_* names are bound by the def statements of lines   *)
(* 206-280, after the force-refresh block, so cached_search_ids.clear()    *)
(* raises NameError, which the except clause swallows: nothing is cleared. *)
(***************************************************************************)
ClearCaches(refresh) == UNCHANGED cacheVars

\* ENTER without the region check of lines 324-325.
EnterBug ==
  /\ pc = "idle"
  /\ \E m \in Modes, opt \in RegionOptions, days_choice \in DAYS_OPTIONS,
        pieces \in KeywordInputs, refresh \in BOOLEAN, max_results \in MaxResultsChoices :
       LET code == code_from_option(opt)
           kws == ParseKeywords(pieces)
           is_trending == (m = "Trending (region)")
           fetching == m # "Select" /\ ~is_trending
                         /\ days_choice # 0 /\ kws # <<>>
       IN /\ mode' = m
          /\ region_code' = code
          /\ force_refresh' = refresh
          /\ ClearCaches(refresh)
          /\ per_kw_max' = Min(max_results, 25)
          /\ keywords' = IF fetching THEN kws ELSE <<>>
          /\ now' = IF fetching THEN now + 1 ELSE now
          /\ published_after' =
               IF fetching THEN iso_after_days(now + 1, days_choice) ELSE NoTime
          /\ IF m = "Select"
             THEN /\ msgs' = Append(msgs, Msg("error", "mode", ""))
                  /\ pc' = "done"
             ELSE IF is_trending
             THEN /\ pc' = "trending" /\ msgs' = msgs
             ELSE IF days_choice = 0
             THEN /\ msgs' = msgs \o <<Msg("error", "days", ""), Msg("info", "no results", "")>>
                  /\ pc' = "done"
             ELSE IF kws = <<>>
             THEN /\ msgs' = msgs \o <<Msg("error", "keywords", ""), Msg("info", "no results", "")>>
                  /\ pc' = "done"
             ELSE /\ pc' = "search" /\ msgs' = msgs
  /\ kwIdx' = 1
  /\ UNCHANGED <<filterVars, ordered_ids, ids, batchNo, results, out, site, rows, df,
                 channel_info_map, log, displayed, csv, pureVars>>

Enter ==
  /\ pc = "idle"
  /\ \E m \in Modes, opt \in RegionOptions, days_choice \in DAYS_OPTIONS,
        pieces \in KeywordInputs, refresh \in BOOLEAN, max_results \in MaxResultsChoices :
       LET code == code_from_option(opt)
           kws == ParseKeywords(pieces)
           is_trending == (m = "Trending (region)")
           fetching == m # "Select" /\ code # "" /\ ~is_trending
                         /\ days_choice # 0 /\ kws # <<>>
       IN /\ mode' = m
          /\ region_code' = code
          /\ force_refresh' = refresh
          /\ ClearCaches(refresh)
          /\ per_kw_max' = Min(max_results, 25)
          /\ keywords' = IF fetching THEN kws ELSE <<>>
          /\ now' = IF fetching THEN now + 1 ELSE now
          /\ published_after' =
               IF fetching THEN iso_after_days(now + 1, days_choice) ELSE NoTime
          /\ IF m = "Select"
             THEN /\ msgs' = Append(msgs, Msg("error", "mode", ""))
                  /\ pc' = "done"
             ELSE IF code = ""
             THEN /\ msgs' = Append(msgs, Msg("error", "region", ""))
                  /\ pc' = "done"
             ELSE IF is_trending
             THEN /\ pc' = "trending" /\ msgs' = msgs
             ELSE IF days_choice = 0
             THEN /\ msgs' = msgs \o <<Msg("error", "days", ""), Msg("info", "no results", "")>>
                  /\ pc' = "done"
             ELSE IF kws = <<>>
             THEN /\ msgs' = msgs \o <<Msg("error", "keywords", ""), Msg("info", "no results", "")>>
                  /\ pc' = "done"
             ELSE /\ pc' = "search" /\ msgs' = msgs
  /\ kwIdx' = 1
  /\ UNCHANGED <<filterVars, ordered_ids, ids, batchNo, results, out, site, rows, df,
                 channel_info_map, log, displayed, csv, pureVars>>

(***************************************************************************)
(* fetch_keywords, lines 299-317: one step per keyword of the loop, then   *)
(* the de-duplication and the cap.  st.cache_data answers a call whose     *)
(* arguments it has stored without running the body, and stores the value  *)
(* of a call that returns; a call that raises stores nothing.              *)
(***************************************************************************)
SearchKey == <<keywords[kwIdx], published_after, per_kw_max, region_code>>

InSearchLoop == pc = "search" /\ kwIdx <= Len(keywords)

\* cached_search_ids answered from the cache.
SearchHit ==
  /\ InSearchLoop
  /\ SearchKey \in DOMAIN cache_search
  /\ ordered_ids' = ordered_ids \o cache_search[SearchKey]
  /\ kwIdx' = kwIdx + 1
  /\ UNCHANGED <<pc, inputVars, filterVars, ids, batchNo, results, out, site, rows, df,
                 channel_info_map, log, uiVars, cacheVars, pureVars>>

\* cached_search_ids runs, and the request succeeds with one of SearchResponses.
SearchOk ==
  /\ InSearchLoop
  /\ SearchKey \notin DOMAIN cache_search
  /\ \E resp \in SearchResponses :
       /\ ordered_ids' = ordered_ids \o resp
       /\ cache_search' = (SearchKey :> resp) @@ cache_search
       /\ log' = Append(log, Event("search", keywords[kwIdx], resp, TRUE))
  /\ kwIdx' = kwIdx + 1
  /\ UNCHANGED <<pc, inputVars, filterVars, ids, batchNo, results, out, site, rows, df,
                 channel_info_map, uiVars, cache_videos, cache_channels, pureVars>>

\* cached_search_ids runs, and requests.get or raise_for_status raises: the
\* except clause of line 306 reports it and the loop goes on.
SearchFailBug ==
  /\ InSearchLoop
  /\ SearchKey \notin DOMAIN cache_search
  /\ log' = Append(log, Event("search", keywords[kwIdx], <<>>, FALSE))
  /\ msgs' = Append(msgs, Msg("error", "search", keywords[kwIdx]))
  /\ kwIdx' = Len(keywords) + 1
  /\ UNCHANGED <<pc, inputVars, filterVars, ordered_ids, ids, batchNo, results, out, site,
                 rows, df, channel_info_map, displayed, csv, cacheVars, pureVars>>

SearchFail ==
  /\ InSearchLoop
  /\ SearchKey \notin DOMAIN cache_search
  /\ log' = Append(log, Event("search", keywords[kwIdx], <<>>, FALSE))
  /\ msgs' = Append(msgs, Msg("error", "search", keywords[kwIdx]))
  /\ kwIdx' = kwIdx + 1
  /\ UNCHANGED <<pc, inputVars, filterVars, ordered_ids, ids, batchNo, results, out, site,
                 rows, df, channel_info_map, displayed, csv, cacheVars, pureVars>>

\* Lines 308-317: unique_ids, the cap, and the call of cached_video_stats.
Deduplicate ==
  /\ pc = "search" /\ kwIdx > Len(keywords)
  /\ LET unique_ids == Cap(FirstSeen(ordered_ids))
     IN IF unique_ids = <<>>
        THEN /\ rows' = <<>> /\ pc' = "post" /\ ids' = <<>>
        ELSE /\ ids' = unique_ids /\ pc' = "videos" /\ rows' = rows
  /\ batchNo' = 0 /\ results' = <<>>
  /\ UNCHANGED <<inputVars, filterVars, kwIdx, ordered_ids, out, site, df,
                 channel_info_map, log, uiVars, cacheVars, pureVars>>

(***************************************************************************)
(* fetch_trending, lines 283-297.                                          *)
(***************************************************************************)
TrendingOk ==
  /\ pc = "trending"
  /\ \E resp \in TrendingResponses :
       IF resp = <<>>
       THEN /\ rows' = <<>> /\ pc' = "post" /\ ids' = <<>>
       ELSE /\ ids' = resp /\ pc' = "videos" /\ rows' = rows
  /\ log' = Append(log, Event("trending", "", <<>>, TRUE))
  /\ batchNo' = 0 /\ results' = <<>>
  /\ UNCHANGED <<inputVars, filterVars, kwIdx, ordered_ids, out, site, df,
                 channel_info_map, uiVars, cacheVars, pureVars>>

\* The handlers of lines 550-553: one st.error, and the run is over.
Abort(what) ==
  /\ msgs' = Append(msgs, Msg("error", what, ""))
  /\ pc' = "done"

TrendingFail ==
  /\ pc = "trending"
  /\ log' = Append(log, Event("trending", "", <<>>, FALSE))
  /\ Abort("api")
  /\ UNCHANGED <<inputVars, filterVars, fetchVars, df, channel_info_map, displayed, csv,
                 cacheVars, pureVars>>

(***************************************************************************)
(* cached_video_stats, lines 222-255: one step per chunk.  Each answered   *)
(* chunk is followed by time.sleep(0.12).                                  *)
(***************************************************************************)
VideoChunks == chunk_list(ids, BATCH_SIZE)

VideosHit ==
  /\ pc = "videos" /\ batchNo = 0
  /\ ids \in DOMAIN cache_videos
  /\ rows' = cache_videos[ids]
  /\ pc' = "post"
  /\ UNCHANGED <<inputVars, filterVars, kwIdx, ordered_ids, ids, batchNo, results, out,
                 site, df, channel_info_map, log, uiVars, cacheVars, pureVars>>

VideosBatchOk ==
  /\ pc = "videos" /\ batchNo < Len(VideoChunks)
  /\ batchNo = 0 => ids \notin DOMAIN cache_videos
  /\ LET chunk == VideoChunks[batchNo + 1]
     IN /\ log' = log \o <<Event("videos", "", chunk, TRUE), Event("sleep", "", <<>>, TRUE)>>
        /\ results' = results \o VideoItems(chunk)
  /\ batchNo' = batchNo + 1
  /\ UNCHANGED <<pc, inputVars, filterVars, kwIdx, ordered_ids, ids, out, site, rows, df,
                 channel_info_map, uiVars, cacheVars, pureVars>>

\* raise_for_status raises out of cached_video_stats and out of the fetch.
VideosBatchFailBug ==
  /\ pc = "videos" /\ batchNo < Len(VideoChunks)
  /\ batchNo = 0 => ids \notin DOMAIN cache_videos
  /\ log' = Append(log, Event("videos", "", VideoChunks[batchNo + 1], FALSE))
  /\ rows' = results /\ pc' = "post" /\ msgs' = msgs
  /\ UNCHANGED <<inputVars, filterVars, kwIdx, ordered_ids, ids, batchNo, results, out,
                 site, df, channel_info_map, displayed, csv, cacheVars, pureVars>>

VideosBatchFail ==
  /\ pc = "videos" /\ batchNo < Len(VideoChunks)
  /\ batchNo = 0 => ids \notin DOMAIN cache_videos
  /\ log' = Append(log, Event("videos", "", VideoChunks[batchNo + 1], FALSE))
  /\ Abort("api")
  /\ UNCHANGED <<inputVars, filterVars, fetchVars, df, channel_info_map, displayed, csv,
                 cacheVars, pureVars>>

VideosReturn ==
  /\ pc = "videos" /\ batchNo = Len(VideoChunks)
  /\ cache_videos' = (ids :> results) @@ cache_videos
  /\ rows' = results
  /\ pc' = "post"
  /\ UNCHANGED <<inputVars, filterVars, kwIdx, ordered_ids, ids, batchNo, results, out,
                 site, df, channel_info_map, log, uiVars, cache_search, cache_channels,
                 pureVars>>

(***************************************************************************)
(* The main run after the fetch, lines 347-548.  A widget the run reads    *)
(* once (min_views, strict_region, the subscriber box, the view mode and   *)
(* the sort column) is drawn in the step that reads it.                    *)
(***************************************************************************)
\* The view counts of the catalogue, highest first.
ViewValues == <<300, 200, 100, 0>>

RECURSIVE Flatten(_)
Flatten(ss) == IF ss = <<>> THEN <<>> ELSE Head(ss) \o Flatten(Tail(ss))

\* df.sort_values("views", ascending=False): equal counts keep their order.
SortByViews(d) ==
  Flatten([k \in 1..Len(ViewValues) |-> SelectSeq(d, LAMBDA r: r.views = ViewValues[k])])

\* df["channelId"].dropna().unique().tolist()
ChannelIdsOf(d) ==
  FirstSeen(SelectSeq([i \in 1..Len(d) |-> d[i].channelId], LAMBDA c: c # NoChannel))

\* unique of cached_channels_info, line 260.
UniqueChannels(channel_ids) ==
  Prefix(FirstSeen(SelectSeq(channel_ids, LAMBDA c: c # NoChannel)), CHANNEL_CAP)

ChannelChunks == chunk_list(UniqueChannels(ids), BATCH_SIZE)

\* A pandas timestamp: NaT, or an instant in seconds.
NaT == [nat |-> TRUE, at |-> 0]

\* pd.to_datetime(x, errors="coerce") of line 351 for one value.
to_datetime(x) == IF x.kind = "utc" THEN [nat |-> FALSE, at |-> x.at] ELSE NaT

\* datetime.now(timezone.utc) at clock reading t; the clock ticks in half days.
UtcNow(t) == t * (SecondsPerDay \div 2)

Max(a, b) == IF a >= b THEN a ELSE b

\* Lines 360-365 for one value of the publishedAt column.  For NaT the
\* subtraction gives NaT, whose days is NaN, and max(1, NaN) is 1; a build in
\* which a step of that raises appends 1 in the except clause.
DaysSinceBug(dt, t) == IF dt.nat THEN 1 ELSE (UtcNow(t) - dt.at) \div SecondsPerDay

DaysSince(dt, t) ==
  IF dt.nat THEN 1 ELSE Max(1, (UtcNow(t) - dt.at) \div SecondsPerDay)

\* The quotient views / days as a fraction.
Ratio(n, d) == [num |-> n, den |-> d]

\* The lambda of line 367.
ViewsPerDay(views, days) == IF days > 0 THEN Ratio(views, days) ELSE Ratio(views, 1)

\* Lines 351 and 357-367: the publishedAt column converted, and the columns
\* days_since and views_per_day added, at clock reading t.
WithVelocity(d, t) ==
  [i \in 1..Len(d) |->
     LET dt == to_datetime(d[i].publishedAt)
         days == DaysSince(dt, t)
     IN [videoId |-> d[i].videoId, channelId |-> d[i].channelId, views |-> d[i].views,
         publishedAt |-> dt, days_since |-> days,
         views_per_day |-> ViewsPerDay(d[i].views, days)]]

\* Lines 347-381 up to the strict filter's call of cached_channels_info.
\* When the minimum-views filter leaves no row, df.apply(..., axis=1) of line
\* 367 returns a frame instead of a column, and the assignment of a frame of
\* several columns to one column raises ValueError in the pandas builds that
\* check it: the run either ends in the handler of lines 552-553 or goes on.
PostProcess ==
  /\ pc = "post"
  /\ IF rows = <<>>
     THEN /\ msgs' = Append(msgs, Msg("info", "no results", ""))
          /\ pc' = "done"
          /\ UNCHANGED <<filterVars, df, ids, site>>
     ELSE \E mv \in MinViewsChoices, strict \in BOOLEAN :
            LET kept == IF mv > 0 THEN SelectSeq(rows, LAMBDA r: r.views >= mv) ELSE rows
                d == WithVelocity(SortByViews(kept), now)
                channel_ids == ChannelIdsOf(d)
            IN /\ min_views' = mv /\ strict_region' = strict
               /\ subscriber_min' = subscriber_min
               /\ df' = d
               /\ \E raises \in (IF d = <<>> THEN BOOLEAN ELSE {FALSE}) :
                    IF raises
                    THEN /\ ids' = <<>> /\ site' = 0 /\ Abort("unexpected")
                    ELSE IF strict /\ channel_ids # <<>>
                    THEN /\ ids' = channel_ids /\ site' = 1 /\ pc' = "channels"
                         /\ msgs' = msgs
                    ELSE /\ ids' = <<>> /\ site' = 0 /\ pc' = "join"
                         /\ msgs' = IF strict
                                    THEN Append(msgs, Msg("info", "no channel ids", ""))
                                    ELSE msgs
  /\ kwIdx' = 0 /\ ordered_ids' = <<>> /\ batchNo' = 0 /\ results' = <<>>
  /\ out' = EmptyMap /\ rows' = <<>>
  /\ UNCHANGED <<inputVars, channel_info_map, log, displayed, csv, cacheVars, pureVars>>

\* Lines 384-388: the join's call of cached_channels_info.
Join ==
  /\ pc = "join"
  /\ LET channel_ids == ChannelIdsOf(df)
     IN IF channel_ids # <<>>
        THEN /\ ids' = channel_ids /\ site' = 2 /\ pc' = "channels"
        ELSE /\ ids' = <<>> /\ site' = 0 /\ pc' = "subs"
  /\ batchNo' = 0 /\ out' = EmptyMap
  /\ UNCHANGED <<inputVars, filterVars, kwIdx, ordered_ids, results, rows, df,
                 channel_info_map, log, uiVars, cacheVars, pureVars>>

(***************************************************************************)
(* cached_channels_info, lines 257-280: one step per chunk.                *)
(***************************************************************************)
\* The value of the call goes to chinfo (site 1) or channel_info_map (site 2).
ChannelsDeliver(value) ==
  /\ out' = value
  /\ IF site = 1
     THEN /\ pc' = "strict" /\ channel_info_map' = channel_info_map
     ELSE /\ pc' = "subs" /\ channel_info_map' = value

ChannelsHit ==
  /\ pc = "channels" /\ batchNo = 0
  /\ ids \in DOMAIN cache_channels
  /\ ChannelsDeliver(cache_channels[ids])
  /\ UNCHANGED <<inputVars, filterVars, kwIdx, ordered_ids, ids, batchNo, results, site,
                 rows, df, log, uiVars, cacheVars, pureVars>>

ChannelsBatchOk ==
  /\ pc = "channels" /\ batchNo < Len(ChannelChunks)
  /\ batchNo = 0 => ids \notin DOMAIN cache_channels
  /\ LET chunk == ChannelChunks[batchNo + 1]
     IN /\ log' = log \o <<Event("channels", "", chunk, TRUE), Event("sleep", "", <<>>, TRUE)>>
        /\ \E w \in ChannelWorlds : out' = ChannelItems(w, chunk) @@ out
  /\ batchNo' = batchNo + 1
  /\ UNCHANGED <<pc, inputVars, filterVars, kwIdx, ordered_ids, ids, results, site, rows,
                 df, channel_info_map, uiVars, cacheVars, pureVars>>

ChannelsBatchFail ==
  /\ pc = "channels" /\ batchNo < Len(ChannelChunks)
  /\ batchNo = 0 => ids \notin DOMAIN cache_channels
  /\ log' = Append(log, Event("channels", "", ChannelChunks[batchNo + 1], FALSE))
  /\ Abort("api")
  /\ UNCHANGED <<inputVars, filterVars, fetchVars, df, channel_info_map, displayed, csv,
                 cacheVars, pureVars>>

ChannelsReturn ==
  /\ pc = "channels" /\ batchNo = Len(ChannelChunks)
  /\ cache_channels' = (ids :> out) @@ cache_channels
  /\ ChannelsDeliver(out)
  /\ UNCHANGED <<inputVars, filterVars, kwIdx, ordered_ids, ids, batchNo, results, site,
                 rows, df, log, uiVars, cache_search, cache_videos, pureVars>>

(***************************************************************************)
(* The two filters and the display.                                        *)
(***************************************************************************)
\* ch_country of line 375: (country or "").upper() per channel of chinfo.
ChCountry(chinfo) ==
  [cid \in DOMAIN chinfo |->
     Upper(IF chinfo[cid].country = "None" THEN "" ELSE chinfo[cid].country)]

\* The lambda of line 377.
KeepByRegion(cid, ch_country) ==
  cid \in DOMAIN ch_country /\ ch_country[cid] = Upper(region_code)

\* Lines 375-379, with chinfo in out.
StrictFilter ==
  /\ pc = "strict"
  /\ LET ch_country == ChCountry(out)
     IN df' = SelectSeq(df, LAMBDA r: KeepByRegion(r.channelId, ch_country))
  /\ msgs' = Append(msgs, Msg("info", "strict removed", ""))
  /\ pc' = "join"
  /\ UNCHANGED <<inputVars, filterVars, fetchVars, channel_info_map, log, displayed, csv,
                 cacheVars, pureVars>>

\* keep_by_subs, lines 393-402.
keep_by_subsBug(cid, threshold) ==
  IF cid = NoChannel THEN TRUE
  ELSE IF cid \notin DOMAIN channel_info_map THEN TRUE
  ELSE LET subs == channel_info_map[cid].subscriberCount
       IN subs >= threshold

keep_by_subs(cid, threshold) ==
  IF cid = NoChannel THEN TRUE
  ELSE IF cid \notin DOMAIN channel_info_map THEN TRUE
  ELSE LET subs == channel_info_map[cid].subscriberCount
       IN IF subs = Unknown THEN TRUE ELSE subs >= threshold

\* Lines 188-194 (the box is read here) and 391-405.
SubsFilter ==
  /\ pc = "subs"
  /\ \E raw \in SubscriberInputs :
       LET threshold == ParseSubscriberMin(raw)
           warned == IF raw.valid THEN msgs
                     ELSE <<Msg("warning", "subscriber input", "")>> \o msgs
       IN /\ subscriber_min' = threshold
          /\ IF threshold # 0 /\ channel_info_map # EmptyMap
             THEN /\ df' = SelectSeq(df, LAMBDA r: keep_by_subs(r.channelId, threshold))
                  /\ msgs' = Append(warned, Msg("info", "subscriber removed", ""))
             ELSE /\ df' = df /\ msgs' = warned
  /\ pc' = "display"
  /\ UNCHANGED <<inputVars, strict_region, min_views, fetchVars, channel_info_map, log,
                 displayed, csv, cacheVars, pureVars>>

\* Lines 407-548.  In the table view sort_values(sort_col) raises KeyError for
\* "avg_views", which is no column of the frame.
Display ==
  /\ pc = "display"
  /\ \E key_error \in {display_mode = "Table" /\ sort_by = "avg_views" :
                          display_mode \in DisplayModes, sort_by \in SortBy} :
       IF key_error
       THEN /\ Abort("unexpected") /\ UNCHANGED <<displayed, csv>>
       ELSE /\ displayed' = TRUE /\ csv' = TRUE /\ pc' = "done" /\ msgs' = msgs
  /\ UNCHANGED <<inputVars, filterVars, fetchVars, df, channel_info_map, log, cacheVars,
                 pureVars>>

Next ==
  \/ Enter
  \/ SearchHit \/ SearchOk \/ SearchFail \/ Deduplicate
  \/ TrendingOk \/ TrendingFail
  \/ VideosHit \/ VideosBatchOk \/ VideosBatchFail \/ VideosReturn
  \/ PostProcess \/ Join
  \/ ChannelsHit \/ ChannelsBatchOk \/ ChannelsBatchFail \/ ChannelsReturn
  \/ StrictFilter \/ SubsFilter \/ Display

Spec == Init /\ [][Next]_vars

\* The fetch alone: the run up to the return of fetch_keywords or
\* fetch_trending, with the locals of the fetch still in the state.
NextFetch ==
  \/ Enter
  \/ SearchHit \/ SearchOk \/ SearchFail \/ Deduplicate
  \/ TrendingOk \/ TrendingFail
  \/ VideosHit \/ VideosBatchOk \/ VideosBatchFail \/ VideosReturn

SpecFetch == Init /\ [][NextFetch]_vars

(***************************************************************************)
(* The pure helpers.  A string is a sequence of one-character strings.     *)
(***************************************************************************)

DigitChars == <<"0", "1", "2", "3", "4", "5", "6", "7", "8", "9">>

IsDigit(ch) == ch \in Range(DigitChars)

\* int(ch) for one decimal digit.
DigitValue(ch) == (CHOOSE i \in 1..10 : DigitChars[i] = ch) - 1

\* str(n) for an integer n >= 0.
RECURSIVE Digits(_)
Digits(n) ==
  IF n < 10 THEN <<DigitChars[n + 1]>>
  ELSE Digits(n \div 10) \o <<DigitChars[(n % 10) + 1]>>

\* int(num) for a non-empty string of decimal digits.
RECURSIVE ToInt(_)
ToInt(num) ==
  IF num = <<>> THEN 0
  ELSE 10 * ToInt(SubSeq(num, 1, Len(num) - 1)) + DigitValue(num[Len(num)])

\* s.rstrip(c): s without its trailing run of the character c.
RECURSIVE rstrip(_, _)
rstrip(s, c) ==
  IF s # <<>> /\ s[Len(s)] = c THEN rstrip(SubSeq(s, 1, Len(s) - 1), c) ELSE s

\* The values round(10 * n / d) that "{n/d:.1f}" can print, d a power of ten.
\* The quotient n/d is a double and the format rounds the double's exact value.
\* Off a tie the double lies on the same side as n/d.  On a tie, x.x5, the
\* double is exact only for x.25 and x.75, which round to the even digit; for
\* the other ties the double lies on either side of x.x5.
Tenths(n, d) ==
  LET d10 == d \div 10
      whole == n \div d
      tenth == (n % d) \div d10
      rest == (n % d) % d10
      down == whole * 10 + tenth
  IN IF 2 * rest < d10 THEN {down}
     ELSE IF 2 * rest > d10 THEN {down + 1}
     ELSE IF tenth = 2 THEN {down}
     ELSE IF tenth = 7 THEN {down + 1}
     ELSE {down, down + 1}

\* "{x:.1f}" for x = t / 10.
OneDecimal(t) == Digits(t \div 10) \o <<".">> \o Digits(t % 10)

\* f"{n/d:.1f}{suffix}".rstrip('0').rstrip('.')
Scaled(n, d, suffix) ==
  {rstrip(rstrip(OneDecimal(t) \o <<suffix>>, "0"), ".") : t \in Tenths(n, d)}

\* format_count(n) for an integer n >= 0: the strings it can return.
format_count(n) ==
  IF n >= 1000000000 THEN Scaled(n, 1000000000, "B")
  ELSE IF n >= 1000000 THEN Scaled(n, 1000000, "M")
  ELSE IF n >= 1000 THEN Scaled(n, 1000, "k")
  ELSE {Digits(n)}

\* str.upper() on one character of a duration.
UpperChar(ch) ==
  CASE ch = "p" -> "P"
    [] ch = "t" -> "T"
    [] ch = "h" -> "H"
    [] ch = "m" -> "M"
    [] ch = "s" -> "S"
    [] OTHER -> ch

UpperChars(s) == [i \in 1..Len(s) |-> UpperChar(s[i])]

\* s.replace("PT", "")
RECURSIVE RemovePT(_)
RemovePT(s) ==
  IF Len(s) < 2 THEN s
  ELSE IF s[1] = "P" /\ s[2] = "T" THEN RemovePT(SubSeq(s, 3, Len(s)))
  ELSE <<s[1]>> \o RemovePT(Tail(s))

\* One turn of the character loop of parse_iso8601_duration.
ScanChar(st, ch) ==
  LET value == IF st.num = <<>> THEN 0 ELSE ToInt(st.num)
  IN IF IsDigit(ch) THEN [st EXCEPT !.num = st.num \o <<ch>>]
     ELSE IF ch = "H" THEN [st EXCEPT !.hours = value, !.num = <<>>]
     ELSE IF ch = "M" THEN [st EXCEPT !.mins = value, !.num = <<>>]
     ELSE IF ch = "S" THEN [st EXCEPT !.secs = value, !.num = <<>>]
     ELSE [st EXCEPT !.num = <<>>]

RECURSIVE Scan(_, _)
Scan(st, s) == IF s = <<>> THEN st ELSE Scan(ScanChar(st, Head(s)), Tail(s))

\* f"{n:02d}"
Pad2Bug(n) == Digits(n)

Pad2(n) == IF n < 10 THEN <<"0">> \o Digits(n) ELSE Digits(n)

parse_iso8601_duration(duration_str) ==
  IF duration_str = <<>> THEN <<>>
  ELSE LET s == RemovePT(UpperChars(duration_str))
           st == Scan([hours |-> 0, mins |-> 0, secs |-> 0, num |-> <<>>], s)
       IN IF st.hours > 0
          THEN Digits(st.hours) \o <<":">> \o Pad2(st.mins) \o <<":">> \o Pad2(st.secs)
          ELSE Digits(st.mins) \o <<":">> \o Pad2(st.secs)

\* Arguments of format_count: view, like, comment and subscriber counts.
CountInputs ==
  {0, 7, 42, 999, 1000, 1049, 1051, 1250, 1500, 1750, 12345, 99949, 999949,
   999999, 1000000, 1500000, 2750000, 999999999, 1000000000, 2000000000}

\* Parts of a contentDetails.duration, each with the number it denotes.
Part(t, v) == [text |-> t, value |-> v]

HourParts ==
  {Part(<<>>, 0), Part(<<"0", "H">>, 0), Part(<<"1", "H">>, 1), Part(<<"1", "2", "h">>, 12)}

MinuteParts ==
  {Part(<<>>, 0), Part(<<"0", "M">>, 0), Part(<<"2", "M">>, 2), Part(<<"1", "8", "m">>, 18)}

SecondParts ==
  {Part(<<>>, 0), Part(<<"0", "S">>, 0), Part(<<"3", "S">>, 3), Part(<<"5", "7", "s">>, 57)}

DurationPrefixes == {<<"P", "T">>, <<"p", "t">>}

Duration(p, h, m, s) == p \o h.text \o m.text \o s.text

\* The durations PT[nH][nM][nS] with at least one part, and the empty string.
DurationInputs ==
  {<<>>} \cup
  {Duration(p, h, m, s) : p \in DurationPrefixes,
     h \in HourParts, m \in MinuteParts, s \in {x \in SecondParts : x.text # <<>>}} \cup
  {Duration(p, h, m, Part(<<>>, 0)) : p \in DurationPrefixes,
     h \in HourParts, m \in {x \in MinuteParts : x.text # <<>>}} \cup
  {Duration(p, h, Part(<<>>, 0), Part(<<>>, 0)) : p \in DurationPrefixes,
     h \in {x \in HourParts : x.text # <<>>}}

(***************************************************************************)
(* relative_time, lines 88-109.  Instants are seconds since                *)
(* 2024-01-01T00:00:00 UTC.  The two parsers are modelled on the shapes    *)
(* the inputs below have: YYYY-MM-DDTHH:MM:SS followed by a UTC offset.    *)
(***************************************************************************)
\* s.replace("Z", "+00:00")
RECURSIVE ReplaceZ(_)
ReplaceZ(s) ==
  IF s = <<>> THEN <<>>
  ELSE (IF Head(s) = "Z" THEN <<"+", "0", "0", ":", "0", "0">> ELSE <<Head(s)>>) \o ReplaceZ(Tail(s))

AllDigits(s) == \A i \in 1..Len(s) : IsDigit(s[i])

IsLeap(y) == (y % 4 = 0 /\ y % 100 # 0) \/ y % 400 = 0

DaysInMonth(y, m) ==
  IF m = 2 THEN (IF IsLeap(y) THEN 29 ELSE 28)
  ELSE IF m \in {4, 6, 9, 11} THEN 30 ELSE 31

\* date(y, m, d).toordinal() less date(1970, 1, 1).toordinal().
DaysFromCivil(y, m, d) ==
  LET yy == IF m <= 2 THEN y - 1 ELSE y
      era == yy \div 400
      yoe == yy - era * 400
      mp == IF m > 2 THEN m - 3 ELSE m + 9
      doy == (153 * mp + 2) \div 5 + d - 1
      doe == yoe * 365 + yoe \div 4 - yoe \div 100 + doy
  IN era * 146097 + doe - 719468

EpochDay == DaysFromCivil(2024, 1, 1)

NoInstant == [ok |-> FALSE, at |-> 0]

\* The date and time of day in the first 19 characters, as a UTC instant less
\* the offset, when they have the shape YYYY-MM-DDTHH:MM:SS and are in range.
CivilInstant(s, offset) ==
  IF Len(s) < 19 THEN NoInstant
  ELSE IF ~(/\ AllDigits(SubSeq(s, 1, 4)) /\ s[5] = "-" /\ AllDigits(SubSeq(s, 6, 7))
            /\ s[8] = "-" /\ AllDigits(SubSeq(s, 9, 10)) /\ s[11] = "T"
            /\ AllDigits(SubSeq(s, 12, 13)) /\ s[14] = ":"
            /\ AllDigits(SubSeq(s, 15, 16)) /\ s[17] = ":"
            /\ AllDigits(SubSeq(s, 18, 19)))
  THEN NoInstant
  ELSE LET y == ToInt(SubSeq(s, 1, 4))
           m == ToInt(SubSeq(s, 6, 7))
           d == ToInt(SubSeq(s, 9, 10))
           hh == ToInt(SubSeq(s, 12, 13))
           mi == ToInt(SubSeq(s, 15, 16))
           ss == ToInt(SubSeq(s, 18, 19))
       IN IF y < 1 \/ m \notin 1..12 THEN NoInstant
          ELSE IF d \notin 1..DaysInMonth(y, m) \/ hh > 23 \/ mi > 59 \/ ss > 59
          THEN NoInstant
          ELSE [ok |-> TRUE,
                at |-> (DaysFromCivil(y, m, d) - EpochDay) * SecondsPerDay
                         + hh * 3600 + mi * 60 + ss - offset]

\* A UTC offset sHH:MM (colon TRUE) or sHHMM (colon FALSE), in seconds.
OffsetSeconds(s, colon) ==
  LET digits == IF colon THEN SubSeq(s, 2, 3) \o SubSeq(s, 5, 6) ELSE SubSeq(s, 2, 5)
      shaped == /\ Len(s) = (IF colon THEN 6 ELSE 5)
                /\ s[1] \in {"+", "-"}
                /\ colon => s[4] = ":"
  IN IF ~shaped THEN [ok |-> FALSE, seconds |-> 0]
     ELSE IF ~AllDigits(digits) THEN [ok |-> FALSE, seconds |-> 0]
     ELSE LET hh == ToInt(SubSeq(digits, 1, 2))
              mi == ToInt(SubSeq(digits, 3, 4))
              magnitude == hh * 3600 + mi * 60
          IN IF hh > 23 \/ mi > 59 THEN [ok |-> FALSE, seconds |-> 0]
             ELSE [ok |-> TRUE,
                   seconds |-> IF s[1] = "-" THEN 0 - magnitude ELSE magnitude]

\* A timestamp with an offset in one of the two spellings.
StampWithOffset(s, colon) ==
  IF Len(s) < 20 THEN NoInstant
  ELSE LET off == OffsetSeconds(SubSeq(s, 20, Len(s)), colon)
       IN IF off.ok THEN CivilInstant(s, off.seconds) ELSE NoInstant

\* datetime.fromisoformat(s) then astimezone(utc), for an input with an offset.
fromisoformat(s) == StampWithOffset(s, TRUE)

\* datetime.strptime(s, "%Y-%m-%dT%H:%M:%S%z") then astimezone(utc).
strptime(s) ==
  IF Len(s) = 20 /\ s[20] = "Z" THEN CivilInstant(s, 0)
  ELSE IF StampWithOffset(s, FALSE).ok THEN StampWithOffset(s, FALSE)
  ELSE StampWithOffset(s, TRUE)

\* Lines 89-95: the instant, or ok FALSE when both parsers raise.
ParseTimestamp(published_at_iso) ==
  LET first == fromisoformat(ReplaceZ(published_at_iso))
  IN IF first.ok THEN first ELSE strptime(published_at_iso)

\* Lines 96-109 for diff = clock - at.
Ago(diff) ==
  LET days == diff \div SecondsPerDay
      seconds == diff % SecondsPerDay
      hours == seconds \div 3600
      mins == seconds \div 60
  IN IF days < 1
     THEN IF hours < 1
          THEN (IF mins > 0 THEN Digits(mins) \o <<"m", " ", "a", "g", "o">> ELSE <<"j", "u", "s", "t", " ", "n", "o", "w">>)
          ELSE Digits(hours) \o <<"h", " ", "a", "g", "o">>
     ELSE IF days < 30
     THEN (IF days < 7 THEN Digits(days) \o <<" ", "d", "a", "y", "s", " ", "a", "g", "o">> ELSE Digits(days \div 7) \o <<"w", " ", "a", "g", "o">>)
     ELSE IF days < 365 THEN Digits(days \div 30) \o <<"m", "o", " ", "a", "g", "o">>
     ELSE Digits(days \div 365) \o <<"y", " ", "a", "g", "o">>

\* relative_time(published_at_iso) with datetime.now(timezone.utc) = clock.
relative_time(published_at_iso, clock) ==
  LET dt == ParseTimestamp(published_at_iso)
  IN IF ~dt.ok THEN published_at_iso ELSE Ago(clock - dt.at)

\* Texts that are no timestamp.
GarbageTimestamps ==
  {<<>>, <<"g", "a", "r", "b", "a", "g", "e">>, <<"y", "e", "s", "t", "e", "r", "d", "a", "y">>, <<"2", "0", "2", "4", "-", "1", "3", "-", "4", "5", "T", "0", "0", ":", "0", "0", ":", "0", "0", "Z">>, <<"1", "2", ":", "3", "4">>}

\* Timestamps as the API and isoformat() spell them.
GoodTimestamps ==
  {<<"2", "0", "2", "4", "-", "0", "3", "-", "0", "1", "T", "1", "1", ":", "5", "9", ":", "3", "0", "Z">>, <<"2", "0", "2", "4", "-", "0", "3", "-", "0", "1", "T", "1", "1", ":", "1", "5", ":", "0", "0", "Z">>, <<"2", "0", "2", "4", "-", "0", "3", "-", "0", "1", "T", "0", "7", ":", "0", "0", ":", "0", "0", "+", "0", "0", ":", "0", "0">>, <<"2", "0", "2", "4", "-", "0", "2", "-", "2", "7", "T", "1", "2", ":", "0", "0", ":", "0", "0", "Z">>, <<"2", "0", "2", "4", "-", "0", "2", "-", "1", "0", "T", "0", "0", ":", "0", "0", ":", "0", "0", "+", "0", "0", "0", "0">>, <<"2", "0", "2", "3", "-", "1", "2", "-", "2", "5", "T", "0", "9", ":", "3", "0", ":", "0", "0", "Z">>, <<"2", "0", "2", "2", "-", "0", "2", "-", "2", "8", "T", "2", "3", ":", "5", "9", ":", "5", "9", "Z">>, <<"2", "0", "2", "4", "-", "0", "3", "-", "0", "1", "T", "1", "4", ":", "0", "0", ":", "0", "0", "+", "0", "2", ":", "0", "0">>}

TimestampInputs == GarbageTimestamps \cup GoodTimestamps

\* Readings of datetime.now(timezone.utc), in seconds since 2024-01-01.
ClockReadings ==
  {CivilInstant(<<"2", "0", "2", "4", "-", "0", "3", "-", "0", "1", "T", "1", "2", ":", "0", "0", ":", "0", "0">>, 0).at, CivilInstant(<<"2", "0", "2", "4", "-", "0", "3", "-", "0", "2", "T", "1", "2", ":", "0", "0", ":", "0", "0">>, 0).at, CivilInstant(<<"2", "0", "2", "4", "-", "0", "3", "-", "0", "1", "T", "1", "1", ":", "0", "0", ":", "0", "0">>, 0).at}

\* Texts that are no duration.
GarbageDurations == {<<"g", "a", "r", "b", "a", "g", "e">>, <<"P", "T", "5", "X">>, <<"P", "1", "D">>}

\* A helper is about to be called on an argument; no run is in progress.
PureInit ==
  /\ FirstRun
  /\ mode = "Select" /\ region_code = "" /\ keywords = <<>> /\ force_refresh = FALSE
  /\ published_after = NoTime /\ per_kw_max = 0
  /\ strict_region = FALSE /\ subscriber_min = 0 /\ min_views = 0
  /\ kwIdx = 0 /\ ordered_ids = <<>> /\ ids = <<>> /\ batchNo = 0
  /\ results = <<>> /\ out = EmptyMap /\ site = 0 /\ rows = <<>> /\ df = <<>>
  /\ channel_info_map = EmptyMap
  /\ log = <<>> /\ msgs = <<>> /\ displayed = FALSE /\ csv = FALSE
  /\ ret = <<>>
  /\ \/ pc = "format_count" /\ arg \in CountInputs
     \/ pc = "parse_iso8601_duration" /\ arg \in DurationInputs \cup GarbageDurations
     \/ pc = "relative_time" /\ arg \in TimestampInputs

runVars ==
  <<inputVars, filterVars, uiVars, fetchVars, cacheVars, df, channel_info_map, log>>

RelativeTime ==
  /\ pc = "relative_time"
  /\ \E clock \in ClockReadings : ret' = relative_time(arg, clock)
  /\ pc' = "relative_time returned"
  /\ UNCHANGED <<arg, runVars>>

FormatCount ==
  /\ pc = "format_count"
  /\ ret' \in format_count(arg)
  /\ pc' = "format_count returned"
  /\ UNCHANGED <<arg, runVars>>

ParseDuration ==
  /\ pc = "parse_iso8601_duration"
  /\ ret' = parse_iso8601_duration(arg)
  /\ pc' = "parse_iso8601_duration returned"
  /\ UNCHANGED <<arg, runVars>>

NextPure == FormatCount \/ ParseDuration \/ RelativeTime

SpecPure == PureInit /\ [][NextPure]_vars

(***************************************************************************)
(* Properties.                                                             *)
(***************************************************************************)
KeywordMode == "Keyword search (last N days)"

\* The index at which v first occurs in lst.
FirstIndex(lst, v) ==
  CHOOSE i \in 1..Len(lst) : lst[i] = v /\ \A j \in 1..(i - 1) : lst[j] # v

\* The entries of log for one endpoint.
Requests(endpoint) == SelectSeq(log, LAMBDA e: e.ev = endpoint)

\* fetch_keywords is about to call cached_video_stats(unique_ids, api_key):
\* ids holds unique_ids and ordered_ids the collected identifiers.
HandsToMetadataFetch == pc = "videos" /\ batchNo = 0 /\ mode = KeywordMode

\* C1: the identifier list fetch_keywords passes to the metadata fetch holds no
\* identifier twice, holds only collected identifiers, and lists them in the
\* order of their first occurrence in the concatenation of the per-keyword
\* lists.
C1_DedupFirstSeenOrder ==
  HandsToMetadataFetch =>
    /\ Cardinality(Range(ids)) = Len(ids)
    /\ Range(ids) \subseteq Range(ordered_ids)
    /\ \A k \in 1..(Len(ids) - 1) :
         FirstIndex(ordered_ids, ids[k]) < FirstIndex(ordered_ids, ids[k + 1])
    /\ Cardinality(Range(ordered_ids)) <= SAFETY_MAX_IDS => Range(ids) = Range(ordered_ids)

\* A -> [1, 2], B -> [2, 3] has been collected and [1, 2, 3] is handed on.
C1_Witness ==
  HandsToMetadataFetch /\ ordered_ids = <<1, 2, 2, 3>> /\ ids = <<1, 2, 3>>

\* The front of lst up to the first occurrence of v.
FrontUpTo(lst, v) == SubSeq(lst, 1, FirstIndex(lst, v))

\* C2: the list handed to the metadata fetch is the first min(n, 500) elements
\* of the first-seen-order duplicate-free list of the n collected identifiers:
\* never more than 500, and what is kept is exactly what occurs in a front of
\* the collected list, so what is cut off is the back.
C2_SafetyCapKeepsFront ==
  HandsToMetadataFetch =>
    LET n == Cardinality(Range(ordered_ids))
    IN /\ Len(ids) = Min(n, 500)
       /\ Len(ids) <= 500
       /\ Cardinality(Range(ids)) = Len(ids)
       /\ Range(ids) = Range(FrontUpTo(ordered_ids, ids[Len(ids)]))

\* 600 unique identifiers were collected and exactly 500 are handed on.
C2_Witness ==
  /\ HandsToMetadataFetch
  /\ Cardinality(Range(ordered_ids)) = 600
  /\ Len(ids) = 500

\* A search request of this run that raised / that returned.
FailedSearches == SelectSeq(log, LAMBDA e: e.ev = "search" /\ ~e.ok)

GoodSearches == SelectSeq(log, LAMBDA e: e.ev = "search" /\ e.ok)

\* The step taken is a search request that raises.
SearchRaises ==
  /\ pc = "search"
  /\ Len(log') = Len(log) + 1
  /\ log'[Len(log')].ev = "search" /\ ~log'[Len(log')].ok

\* Every step of the keyword loop keeps what was collected and moves on to the
\* next keyword; a step whose search raises reports an error for its keyword
\* and collects nothing.
C3_LoopStep ==
  (pc = "search" /\ kwIdx <= Len(keywords)) =>
    /\ pc' = "search" /\ kwIdx' = kwIdx + 1
    /\ Len(ordered_ids') >= Len(ordered_ids)
    /\ SubSeq(ordered_ids', 1, Len(ordered_ids)) = ordered_ids
    /\ SearchRaises =>
         /\ ordered_ids' = ordered_ids
         /\ msgs' = Append(msgs, Msg("error", "search", keywords[kwIdx]))

\* Once the loop is over every keyword was searched for, the collected list
\* holds the identifiers of every search that returned and nothing else, and
\* if every search raised nothing is collected, nothing is returned and no
\* metadata request is issued.
C3_AfterLoop ==
  /\ (mode = KeywordMode /\ pc \in {"videos", "post"}) =>
       /\ \A k \in 1..Len(keywords) :
            \E i \in 1..Len(log) : log[i].ev = "search" /\ log[i].kw = keywords[k]
       /\ Len(FailedSearches) = Cardinality({j \in 1..Len(msgs) : msgs[j].what = "search"})
       /\ Range(ordered_ids) = UNION {Range(GoodSearches[i].ids) : i \in 1..Len(GoodSearches)}
  /\ (mode = KeywordMode /\ pc \notin {"idle", "search"} /\ keywords # <<>>
        /\ GoodSearches = <<>>) =>
       /\ pc # "videos" /\ rows = <<>> /\ ordered_ids = <<>>
       /\ Requests("videos") = <<>>

\* C3: a failing search for one keyword is reported for that keyword,
\* contributes no identifier and does not stop the searches for the later
\* keywords; the identifiers of every search that succeeded are all collected;
\* if every search fails the result is empty and no metadata request is issued.
C3_SearchFailureIsLocal == [][C3_LoopStep]_vars /\ []C3_AfterLoop

\* The first keyword's search raised, the second returned [2, 3], and [2, 3] is
\* handed to the metadata fetch.
C3_Witness ==
  /\ HandsToMetadataFetch
  /\ Len(log) = 2 /\ ~log[1].ok /\ log[2].ok /\ log[1].kw # log[2].kw
  /\ msgs = <<Msg("error", "search", keywords[1])>>
  /\ ids = <<2, 3>>

\* The positions in log of the videos requests that raised.
FailedVideoBatches == {i \in 1..Len(log) : log[i].ev = "videos" /\ ~log[i].ok}

\* The messages of the handlers of lines 550-553.
FatalErrors == {j \in 1..Len(msgs) : msgs[j].level = "error" /\ msgs[j].what \in {"api", "unexpected"}}

\* C4: once the request for one batch of cached_video_stats has failed, no
\* later request is issued, no record is returned to the run (the records of
\* the batches answered before stay in the abandoned call), the run is over
\* with exactly one error message of the exception handlers as its last
\* message, and neither the result display nor the CSV export is rendered.
C4_BatchFailureAbortsRun ==
  \A i \in FailedVideoBatches :
    /\ i = Len(log)
    /\ pc = "done"
    /\ rows = <<>> /\ df = <<>>
    /\ ~displayed /\ ~csv
    /\ Cardinality(FatalErrors) = 1
    /\ msgs[Len(msgs)] = Msg("error", "api", "")
    /\ ids \notin DOMAIN cache_videos

\* The third batch of a call failed after two batches had been answered with
\* records.
C4_Witness ==
  /\ FailedVideoBatches # {}
  /\ Len(Requests("videos")) = 3
  /\ Len(results) > 50

\* cached_video_stats has run its body to the end and returned to the fetch.
VideoStatsReturned == pc = "post" /\ ids # <<>> /\ Requests("videos") # <<>>

\* C5: a call of cached_video_stats that runs to its end on n identifiers has
\* issued exactly ceil(n/50) requests; every request but the last carries 50
\* identifiers and the last between 1 and 50; the requests, concatenated in
\* the order they were issued, are the input list; and no more than n records
\* come back.
C5_BatchingCoversInput ==
  VideoStatsReturned =>
    LET reqs == Requests("videos")
        n == Len(ids)
    IN /\ Len(reqs) = (n + 49) \div 50
       /\ \A k \in 1..(Len(reqs) - 1) : Len(reqs[k].ids) = 50
       /\ Len(reqs[Len(reqs)].ids) \in 1..50
       /\ Flatten([k \in 1..Len(reqs) |-> reqs[k].ids]) = ids
       /\ \A k \in 1..Len(reqs) : reqs[k].ok
       /\ Len(rows) <= n

\* 120 identifiers went out in batches of 50, 50 and 20, and fewer than 120
\* records came back.
C5_Witness ==
  /\ VideoStatsReturned
  /\ Len(ids) = 120
  /\ [k \in 1..Len(Requests("videos")) |-> Len(Requests("videos")[k].ids)] = <<50, 50, 20>>
  /\ Len(rows) < 120 /\ rows # <<>>

\* The channel of record r has a known subscriber count in the joined map.
KnownSubs(r) ==
  /\ r.channelId # NoChannel
  /\ r.channelId \in DOMAIN channel_info_map
  /\ channel_info_map[r.channelId].subscriberCount # Unknown

SubsOf(r) == channel_info_map[r.channelId].subscriberCount

\* The step of the subscriber filter, from the frame before it to the frame
\* after it, with the threshold it read.
C6_FilterStep ==
  pc = "subs" =>
    LET kept == {df'[i].videoId : i \in 1..Len(df')}
        threshold == subscriber_min'
    IN /\ Range(df') \subseteq Range(df)
       /\ \A i \in 1..Len(df) :
            LET r == df[i]
                known == KnownSubs(r)
            IN IF r.videoId \in kept
               THEN ~(known /\ SubsOf(r) = 500 /\ threshold = 1000)
               ELSE /\ known /\ SubsOf(r) < threshold
                    /\ ~(SubsOf(r) = 500 /\ threshold = 100)

\* C6: the subscriber filter removes a record only if its channel is in the
\* joined channel map with a known subscriber count below the threshold; a
\* record with no channel id, with a channel missing from the map or with an
\* unknown count is kept at every threshold; a channel of 500 subscribers is
\* dropped at threshold 1000 and kept at threshold 100.
C6_SubscriberFilterFailOpen == [][C6_FilterStep]_vars

\* The filter ran at threshold 1000 on the videos 1, 2 and 3, joined with
\* channels of 500 subscribers: the records of those channels are gone and the
\* record without a channel id is still there.
C6_Witness ==
  /\ pc = "display" /\ subscriber_min = 1000
  /\ 11 \in DOMAIN channel_info_map /\ channel_info_map[11].subscriberCount = 500
  /\ Len(df) = 1 /\ df[1].videoId = 3 /\ df[1].channelId = NoChannel
  /\ \E j \in 1..Len(msgs) : msgs[j].what = "subscriber removed"

\* C7: with the strict region filter enabled, every record left after the
\* filter stage has a channel that is in the joined map with a country equal,
\* ignoring case, to the selected region; this for every frame, one without any
\* channel id included.
C7_RegionFilterFailClosed ==
  (strict_region /\ pc = "join") =>
    \A i \in 1..Len(df) :
      /\ df[i].channelId # NoChannel
      /\ df[i].channelId \in DOMAIN out
      /\ Upper(out[df[i].channelId].country) = Upper(region_code)

\* The number of requests to the channels endpoint that ask for channel c.
ChannelRequestsFor(c) ==
  Cardinality({i \in 1..Len(log) : log[i].ev = "channels" /\ c \in Range(log[i].ids)})

\* C8: within one run no channel identifier is asked of the channels endpoint
\* more than once.
C8_ChannelFetchedAtMostOnce ==
  \A i \in 1..Len(log) :
    log[i].ev = "channels" => \A c \in Range(log[i].ids) : ChannelRequestsFor(c) <= 1

\* The rendering C9 states for t tenths of the unit: one decimal, and a
\* trailing ".0" before the suffix stripped.
C9_Stripped(t, suffix) ==
  IF t % 10 = 0 THEN Digits(t \div 10) \o <<suffix>>
  ELSE Digits(t \div 10) \o <<".">> \o Digits(t % 10) \o <<suffix>>

C9_Rendering(n) ==
  IF n >= 1000000000 THEN {C9_Stripped(t, "B") : t \in Tenths(n, 1000000000)}
  ELSE IF n >= 1000000 THEN {C9_Stripped(t, "M") : t \in Tenths(n, 1000000)}
  ELSE IF n >= 1000 THEN {C9_Stripped(t, "k") : t \in Tenths(n, 1000)}
  ELSE {Digits(n)}

\* C9: format_count renders n < 1000 as the plain integer and larger n with
\* one decimal and the suffix k, M or B, a trailing ".0" before the suffix
\* stripped (1000 -> "1k", 2000000000 -> "2B").
C9_FormatCountStripsTrailingZero ==
  pc = "format_count returned" => ret \in C9_Rendering(arg)

\* format_count returned for 1000, the first count that has a suffix.
C9_Witness == pc = "format_count returned" /\ arg = 1000

\* What C10 expects for a number below 100, written out digit by digit.
C10_Plain(n) ==
  IF n < 10 THEN <<DigitChars[n + 1]>>
  ELSE <<DigitChars[(n \div 10) + 1], DigitChars[(n % 10) + 1]>>

C10_TwoDigits(n) == <<DigitChars[(n \div 10) + 1], DigitChars[(n % 10) + 1]>>

C10_Expected(h, m, s) ==
  IF h > 0 THEN C10_Plain(h) \o <<":">> \o C10_TwoDigits(m) \o <<":">> \o C10_TwoDigits(s)
  ELSE C10_Plain(m) \o <<":">> \o C10_TwoDigits(s)

\* C10: for a duration PT[nH][nM][nS] with at least one part,
\* parse_iso8601_duration returns H:MM:SS when hours > 0 and M:SS otherwise,
\* absent parts counting as 0; for the empty string it returns the empty string.
C10_DurationRendering ==
  pc = "parse_iso8601_duration returned" =>
    /\ arg = <<>> => ret = <<>>
    /\ \A p \in DurationPrefixes, h \in HourParts, m \in MinuteParts, s \in SecondParts :
         (arg # <<>> /\ arg = Duration(p, h, m, s)) =>
           ret = C10_Expected(h.value, m.value, s.value)

\* parse_iso8601_duration returned "1:02:03" for "PT1H2M3S".
C10_Witness ==
  /\ pc = "parse_iso8601_duration returned"
  /\ arg = <<"P", "T", "1", "H", "2", "M", "3", "S">>
  /\ ret = <<"1", ":", "0", "2", ":", "0", "3">>

\* The frame of the run once the columns days_since and views_per_day exist.
HasVelocity == pc \in {"channels", "strict", "join", "subs", "display"}

\* now - dt of line 362 in seconds, for a record whose publish time parsed.
ElapsedSeconds(r) == UtcNow(now) - r.publishedAt.at

\* C11: for every record of the frame the days_since denominator is an integer
\* >= 1, whether the publish time is the same day, in the future or
\* unparseable; views_per_day is views over that denominator, so it is
\* defined, >= 0 and <= views; and for a publish time at least one whole day
\* in the past the denominator is the floor of the elapsed days.
C11_DaysSinceAtLeastOne ==
  HasVelocity =>
    \A i \in 1..Len(df) :
      LET r == df[i]
          vpd == r.views_per_day
      IN /\ r.days_since \in Nat /\ r.days_since >= 1
         /\ vpd.den = r.days_since /\ vpd.num = r.views
         /\ vpd.num >= 0 /\ vpd.num <= r.views * vpd.den
         /\ (~r.publishedAt.nat /\ ElapsedSeconds(r) >= SecondsPerDay) =>
              /\ r.days_since * SecondsPerDay <= ElapsedSeconds(r)
              /\ ElapsedSeconds(r) < (r.days_since + 1) * SecondsPerDay

\* The frame holds a record published within the last day (video 1), one whose
\* publish time did not parse (video 3), both with denominator 1, and one
\* published more than two days ago (video 2) with a denominator of 2 or more.
C11_Witness ==
  /\ HasVelocity
  /\ \E i \in 1..Len(df) :
       /\ ~df[i].publishedAt.nat /\ ElapsedSeconds(df[i]) \in 0..(SecondsPerDay - 1)
       /\ df[i].days_since = 1
  /\ \E i \in 1..Len(df) : df[i].publishedAt.nat /\ df[i].days_since = 1
  /\ \E i \in 1..Len(df) :
       /\ ~df[i].publishedAt.nat /\ ElapsedSeconds(df[i]) > 2 * SecondsPerDay
       /\ df[i].days_since >= 2 /\ df[i].views > 0

\* A record published in the future has denominator 1.
C11_WitnessFuture ==
  /\ HasVelocity
  /\ \E i \in 1..Len(df) :
       /\ ~df[i].publishedAt.nat /\ ElapsedSeconds(df[i]) < 0 /\ df[i].days_since = 1

\* C12: an unparseable timestamp given to relative_time and an unparseable
\* duration given to parse_iso8601_duration both come back as the raw input,
\* unchanged.
C12_FallbackReturnsRawInput ==
  /\ (pc = "relative_time returned" /\ arg \in GarbageTimestamps) => ret = arg
  /\ (pc = "parse_iso8601_duration returned" /\ arg \in GarbageDurations) => ret = arg

\* The half of C12 that is about relative_time.
C12_TimestampFallback ==
  (pc = "relative_time returned" /\ arg \in GarbageTimestamps) => ret = arg

\* relative_time returned for a text that is no timestamp, and
\* parse_iso8601_duration for a text that is no duration.
C12_WitnessTimestamp ==
  pc = "relative_time returned" /\ arg \in GarbageTimestamps /\ arg # <<>>

C12_WitnessDuration ==
  pc = "parse_iso8601_duration returned" /\ arg \in GarbageDurations

\* Entries i and i + 1 of log are two requests to the same endpoint with no
\* sleep between them.
BackToBack(i, endpoint) == log[i].ev = endpoint /\ log[i + 1].ev = endpoint

\* C13: a delay step occurs between any two consecutive search queries, and
\* between any two consecutive batch requests of cached_video_stats and of
\* cached_channels_info.
C13_DelayBetweenRequests ==
  \A i \in 1..(Len(log) - 1) :
    /\ ~BackToBack(i, "search")
    /\ ~BackToBack(i, "videos")
    /\ ~BackToBack(i, "channels")

\* The half of C13 that is about the batches of the two cached fetches.
C13_DelayBetweenBatches ==
  \A i \in 1..(Len(log) - 1) : ~BackToBack(i, "videos") /\ ~BackToBack(i, "channels")

\* Two batches of one call of cached_video_stats were requested.
C13_WitnessBatches ==
  \E i \in 1..(Len(log) - 2) :
    /\ log[i].ev = "videos" /\ log[i + 1].ev = "sleep" /\ log[i + 2].ev = "videos"

\* The run is past ENTER and has not fetched anything yet.
BeforeAnyFetch == pc \in {"search", "trending"} /\ kwIdx = 1 /\ log = <<>>

\* cached_video_stats returned records without a videos request in this run:
\* the records are those of an entry an earlier run cached.
AnsweredFromEarlierRun == pc = "post" /\ rows # <<>> /\ Requests("videos") = <<>>

\* C14: when the force-refresh box is checked, the three caches are empty
\* before any fetch of the run, and no fetch of the run is answered from an
\* entry an earlier run cached.
C14_ForceRefreshClearsCaches ==
  force_refresh =>
    /\ BeforeAnyFetch =>
         /\ cache_search = EmptyMap /\ cache_videos = EmptyMap
         /\ cache_channels = EmptyMap
    /\ ~AnsweredFromEarlierRun

\* With the box checked, cached_video_stats answered from the entry of the
\* earlier run.
C14_StaleAnswer == force_refresh /\ AnsweredFromEarlierRun

\* The st.error messages of the validation, lines 322-341.
ValidationErrors ==
  {j \in 1..Len(msgs) :
     msgs[j].level = "error" /\ msgs[j].what \in {"mode", "region", "days", "keywords"}}

\* The inputs of the run are valid: a mode and a region are selected, and in
\* keyword mode Days is a number and the trimmed keyword list is not empty.
InputsValid ==
  /\ mode # "Select" /\ region_code # ""
  /\ mode = KeywordMode =>
       /\ published_after # NoTime /\ published_after.less # 0
       /\ keywords # <<>>

\* C15: after ENTER, a run whose inputs are not valid shows a validation
\* error, issues no external request and displays no records; a run whose
\* inputs are valid shows no validation error, and in trending mode the inputs
\* are valid whatever Days and Keywords hold.
C15_NoRequestUnlessValid ==
  pc # "idle" =>
    /\ IF InputsValid
       THEN ValidationErrors = {}
       ELSE /\ ValidationErrors # {} /\ pc = "done"
            /\ log = <<>> /\ ~displayed /\ ~csv /\ df = <<>>
    /\ (mode = "Trending (region)" /\ region_code # "") => InputsValid

\* A keyword run with a region and Days 7 whose keyword text has no keyword
\* ended with the keywords error and no request.
C15_Witness ==
  /\ pc = "done" /\ mode = KeywordMode /\ region_code = "US"
  /\ \E j \in ValidationErrors : msgs[j].what = "keywords"
  /\ log = <<>> /\ ~displayed

\* A trending run with a region issued its request.
C15_WitnessTrending ==
  /\ mode = "Trending (region)" /\ region_code = "US"
  /\ Requests("trending") # <<>> /\ ValidationErrors = {}

====
